---- MODULE Spec2Model ----
(***************************************************************************)
(* Model of the PDF field-extraction script ("excel_main 5.py"):           *)
(* process_config_rows drives table_extraction_regex / text search over a  *)
(* rule set, one result row per rule with a registered file.               *)
(*                                                                         *)
(* Python values are records tagged by field k, so that values of          *)
(* different Python types can be compared.  Python strings that the code   *)
(* searches, splits, lowers or parses are sequences of one-character       *)
(* strings.                                                                *)
(*                                                                         *)
(* Spec is the run over a rule set of up to MaxRules rules, SpecRule the   *)
(* run over one rule of any shape, SpecMatch the Table Matcher alone and   *)
(* SpecDoc the document functions alone, on generated documents.           *)
(***************************************************************************)
EXTENDS Integers, Sequences, FiniteSets, TLC

VARIABLES pc, scope, columns, pdf_map, text_extract, config, result, outcomes,
          written, artifacts, m_in, m_out, files, handles, extracted_value

vars == <<pc, scope, columns, pdf_map, text_extract, config, result, outcomes,
          written, artifacts, m_in, m_out, files, handles, extracted_value>>

----------------------------------------------------------------------------
(* Python values *)

None == [k |-> "None"]
NaN == [k |-> "nan"]
Str(s) == [k |-> "str", s |-> s]
Num(t) == [k |-> "num", t |-> t]          \* a float, in tenths: Num(27) is 2.7
Exc(e) == [k |-> "exc", e |-> e]          \* a raised exception
PyList(l) == [k |-> "list", l |-> l]
DataFrame(rows) == [k |-> "df", rows |-> rows]

\* a local that no assignment has bound yet
Unbound == [k |-> "unbound"]

IsExc(x) == x.k = "exc"
IsStr(x) == x.k = "str"

\* bool(x) as the if statements of the script evaluate it
Truthy(x) ==
  CASE x.k = "None" -> FALSE
    [] x.k = "nan" -> TRUE
    [] x.k = "str" -> x.s # <<>>
    [] x.k = "num" -> x.t # 0
    [] x.k = "list" -> x.l # <<>>
    [] OTHER -> TRUE

\* pd.notna(x)
notna(x) == x.k \notin {"None", "nan"}

----------------------------------------------------------------------------
(* Strings as sequences of characters *)

\* the element of a one-element set: The({e(v) : v \in {x}}) is e with v bound
\* to the value of x, computed once
The(S) == CHOOSE x \in S : TRUE

Min(S) == CHOOSE x \in S : \A y \in S : x <= y
Max(S) == CHOOSE x \in S : \A y \in S : x >= y

Whitespace == {" ", "\n"}
Digits == {"0", "1", "2", "3", "4", "5", "6", "7", "8", "9"}

DigitVal(c) ==
  CASE c = "0" -> 0 [] c = "1" -> 1 [] c = "2" -> 2 [] c = "3" -> 3
    [] c = "4" -> 4 [] c = "5" -> 5 [] c = "6" -> 6 [] c = "7" -> 7
    [] c = "8" -> 8 [] c = "9" -> 9

LowerChar(c) ==
  CASE c = "H" -> "h" [] c = "D" -> "d" [] c = "A" -> "a" [] c = "B" -> "b"
    [] c = "K" -> "k" [] c = "Q" -> "q" [] c = "N" -> "n"
    [] OTHER -> c

\* str.lower()
Lower(s) == [i \in 1..Len(s) |-> LowerChar(s[i])]

\* s[i:j] with 1-based inclusive bounds
Slice(s, i, j) == IF j < i THEN <<>> ELSE SubSeq(s, i, j)

OccursAt(s, sub, i) ==
  /\ i >= 1
  /\ i + Len(sub) - 1 <= Len(s)
  /\ \A j \in 1..Len(sub) : s[i + j - 1] = sub[j]

\* str.find(sub) + 1: the 1-based position of the first occurrence, 0 if none
Find(s, sub) ==
  LET hits == {i \in 1..(Len(s) + 1) : OccursAt(s, sub, i)}
  IN IF hits = {} THEN 0 ELSE Min(hits)

\* sub in s
Contains(s, sub) == Find(s, sub) # 0

\* str.strip()
Strip(s) ==
  LET keep == {i \in 1..Len(s) : s[i] \notin Whitespace}
  IN IF keep = {} THEN <<>> ELSE Slice(s, Min(keep), Max(keep))

RECURSIVE SplitOn(_, _)
\* str.split(sep) for a one-character separator
SplitOn(s, sep) ==
  LET at == Find(s, <<sep>>)
  IN IF at = 0 THEN <<s>>
     ELSE <<Slice(s, 1, at - 1)>> \o SplitOn(Slice(s, at + 1, Len(s)), sep)

RECURSIVE Join(_, _)
\* sep.join(parts)
Join(parts, sep) ==
  IF parts = <<>> THEN <<>>
  ELSE IF Len(parts) = 1 THEN parts[1]
  ELSE parts[1] \o sep \o Join(Tail(parts), sep)

\* l[:n]
Take(l, n) == IF Len(l) <= n THEN l ELSE SubSeq(l, 1, n)

----------------------------------------------------------------------------
(* int() and float() on strings and numbers *)

RECURSIVE DigitsVal(_)
DigitsVal(ds) ==
  IF ds = <<>> THEN 0
  ELSE 10 * DigitsVal(SubSeq(ds, 1, Len(ds) - 1)) + DigitVal(ds[Len(ds)])

AllDigits(ds) == \A i \in 1..Len(ds) : ds[i] \in Digits

HasSign(t) == t # <<>> /\ t[1] \in {"-", "+"}
Unsigned(t) == IF HasSign(t) THEN Tail(t) ELSE t
SignOf(t) == IF t # <<>> /\ t[1] = "-" THEN -1 ELSE 1

\* int(s) for a str s: surrounding whitespace, an optional sign, decimal digits;
\* anything else raises ValueError
int_of_str(s) ==
  LET t == Strip(s)
      body == Unsigned(t)
  IN IF body # <<>> /\ AllDigits(body)
       THEN PyList(<<SignOf(t) * DigitsVal(body)>>)
       ELSE Exc("ValueError")

\* int(float(s)) for a str s: digits with at most one decimal point, truncated
\* toward zero
int_of_float_str(s) ==
  LET t == Strip(s)
      body == Unsigned(t)
      dot == Find(body, <<".">>)
      whole == IF dot = 0 THEN body ELSE Slice(body, 1, dot - 1)
      frac == IF dot = 0 THEN <<>> ELSE Slice(body, dot + 1, Len(body))
  IN IF AllDigits(whole) /\ AllDigits(frac) /\ whole \o frac # <<>>
       THEN PyList(<<SignOf(t) * DigitsVal(whole)>>)
       ELSE Exc("ValueError")

\* int(x) for a float x (in tenths): truncation toward zero
Trunc(t) == IF t >= 0 THEN t \div 10 ELSE -((-t) \div 10)

\* int(float(x)) for a cell of the rule set
int_of_float(x) ==
  CASE x.k = "num" -> PyList(<<Trunc(x.t)>>)
    [] x.k = "str" -> int_of_float_str(x.s)
    [] x.k = "nan" -> Exc("ValueError")
    [] OTHER -> Exc("TypeError")

\* int(x) for a cell of the rule set
int_of(x) ==
  CASE x.k = "num" -> PyList(<<Trunc(x.t)>>)
    [] x.k = "str" -> int_of_str(x.s)
    [] x.k = "nan" -> Exc("ValueError")
    [] OTHER -> Exc("TypeError")

\* str(x) of a rule-set cell holds a comma
HasComma(x) == x.k = "str" /\ Contains(x.s, <<",">>)

RECURSIVE int_each(_)
\* [int(r.strip()) - 1 for r in parts]; the first failing part raises
int_each(parts) ==
  IF parts = <<>> THEN PyList(<<>>)
  ELSE LET h == int_of_str(Strip(parts[1]))
           t == int_each(Tail(parts))
       IN IF IsExc(h) THEN h
          ELSE IF IsExc(t) THEN t
          ELSE PyList(<<h.l[1] - 1>> \o t.l)

\* row_indices / col_indices of table_extraction_regex
parse_indices(spec) ==
  IF HasComma(spec)
    THEN int_each(SplitOn(spec.s, ","))
    ELSE LET v == int_of_float(spec)
         IN IF IsExc(v) THEN v ELSE PyList(<<v.l[1] - 1>>)

----------------------------------------------------------------------------
(* Tables: pdfplumber gives a table as a list of rows of cells, a cell a    *)
(* str or None; pd.DataFrame(table) keeps the raw rows, row 0 included.     *)

NRows(df) == Len(df.rows)
NCols(df) == IF df.rows = <<>> THEN 0 ELSE Len(df.rows[1])

\* an iloc position: -n .. n-1 are valid, negative ones count from the end
Position(i, n) == IF i >= 0 THEN i + 1 ELSE n + i + 1
InBounds(i, n) == -n <= i /\ i < n

\* table.iloc[row, col] with 0-based row and col
iloc(df, row, col) ==
  IF InBounds(row, NRows(df)) /\ InBounds(col, NCols(df))
    THEN df.rows[Position(row, NRows(df))][Position(col, NCols(df))]
    ELSE Exc("IndexError")

\* str(value) of a cell
str_of(cell) == IF cell.k = "None" THEN <<"N", "o", "n", "e">> ELSE cell.s

\* get_cell_value: IndexError gives "", any other failure propagates
get_cell_value(table, row, col) ==
  IF table.k # "df" THEN Exc("AttributeError")
  ELSE LET value == iloc(table, row, col)
       IN IF IsExc(value) THEN Str(<<>>) ELSE Str(str_of(value))

\* mutant: for col in col_indices for row in row_indices
cell_values_col_major(table, row_indices, col_indices) ==
  [i \in 1..(Len(row_indices) * Len(col_indices)) |->
     get_cell_value(table, row_indices[((i - 1) % Len(row_indices)) + 1],
                    col_indices[((i - 1) \div Len(row_indices)) + 1])]

\* [get_cell_value(row, col) for row in row_indices for col in col_indices]
cell_values(table, row_indices, col_indices) ==
  LET nc == Len(col_indices)
      n == Len(row_indices) * nc
  IN [i \in 1..n |->
        get_cell_value(table, row_indices[((i - 1) \div nc) + 1],
                       col_indices[((i - 1) % nc) + 1])]

----------------------------------------------------------------------------
(* difflib.SequenceMatcher(None, a, b).ratio() for strings shorter than the *)
(* 200 characters at which the autojunk heuristic starts.                   *)

RECURSIVE RunLen(_, _, _, _, _, _)
\* length of the common run starting at a[i], b[j] inside a[..ahi], b[..bhi]
RunLen(a, b, i, j, ahi, bhi) ==
  IF i > ahi \/ j > bhi \/ a[i] # b[j] THEN 0
  ELSE 1 + RunLen(a, b, i + 1, j + 1, ahi, bhi)

\* find_longest_match: the longest block, of those the earliest in a, of
\* those the earliest in b; <<alo, blo, 0>> when nothing matches
find_longest_match(a, b, alo, ahi, blo, bhi) ==
  The({ IF live = {} THEN <<alo, blo, 0>>
        ELSE The({ The({ <<i, Min({c[2] : c \in {d \in live : d[3] = k /\ d[1] = i}}), k>> :
                         i \in {Min({c[1] : c \in {d \in live : d[3] = k}})} }) :
                   k \in {Max({c[3] : c \in live})} }) :
        live \in {{c \in {<<i, j, RunLen(a, b, i, j, ahi, bhi)>> :
                            i \in alo..ahi, j \in blo..bhi} : c[3] > 0}} })

RECURSIVE matching_size(_, _, _, _, _, _)
\* sum of the sizes of get_matching_blocks over a[alo..ahi], b[blo..bhi]
matching_size(a, b, alo, ahi, blo, bhi) ==
  IF alo > ahi \/ blo > bhi THEN 0
  ELSE The({ IF m[3] = 0 THEN 0
             ELSE m[3]
                  + matching_size(a, b, alo, m[1] - 1, blo, m[2] - 1)
                  + matching_size(a, b, m[1] + m[3], ahi, m[2] + m[3], bhi) :
             m \in {find_longest_match(a, b, alo, ahi, blo, bhi)} })

\* ratio() as the fraction <<numerator, denominator>>; 1.0 for two empty strings
ratio(a, b) ==
  IF Len(a) + Len(b) = 0 THEN <<1, 1>>
  ELSE <<2 * matching_size(a, b, 1, Len(a), 1, Len(b)), Len(a) + Len(b)>>

\* x > y on fractions with positive denominators
Greater(x, y) == x[1] * y[2] > y[1] * x[2]

----------------------------------------------------------------------------
(* Table Matcher *)

max_lines == 10

\* context_text: the text after the first occurrence of heading, stripped, its
\* first max_lines lines; page_text.split(heading, 1)[1] raises IndexError when
\* heading does not occur in page_text
context_text(page_text, heading) ==
  LET at == Find(page_text, heading)
  IN IF at = 0 THEN Exc("IndexError")
     ELSE Str(Join(Take(SplitOn(Strip(Slice(page_text, at + Len(heading),
                                             Len(page_text))), "\n"),
                        max_lines), <<"\n">>))

\* " ".join(cell if cell else "" for cell in row)
row_to_string(row) ==
  Join([i \in 1..Len(row) |-> IF Truthy(row[i]) THEN row[i].s ELSE <<>>], <<" ">>)

SelectRows(table) == SelectSeq(table, LAMBDA row : row # <<>>)

\* table_to_string: the non-empty rows, one per line
table_to_string(table) ==
  LET rows == SelectRows(table)
  IN Join([i \in 1..Len(rows) |-> row_to_string(rows[i])], <<"\n">>)

RECURSIVE best_from_ge(_, _, _, _, _)
\* mutant: if score >= best_score
best_from_ge(tables, context, i, best_score, best_table) ==
  IF i > Len(tables) THEN best_table
  ELSE The({ IF ~Greater(best_score, score)
               THEN best_from_ge(tables, context, i + 1, score, PyList(tables[i]))
               ELSE best_from_ge(tables, context, i + 1, best_score, best_table) :
             score \in {ratio(context, table_to_string(tables[i]))} })

RECURSIVE best_from(_, _, _, _, _)
\* the scoring loop: state (best_score, best_table) after tables[i..]
best_from(tables, context, i, best_score, best_table) ==
  IF i > Len(tables) THEN best_table
  ELSE The({ IF Greater(score, best_score)
               THEN best_from(tables, context, i + 1, score, PyList(tables[i]))
               ELSE best_from(tables, context, i + 1, best_score, best_table) :
             score \in {ratio(context, table_to_string(tables[i]))} })

get_best_matching_table(tables, page_text, heading) ==
  The({ IF IsExc(ctx) THEN ctx ELSE best_from(tables, ctx.s, 1, <<0, 1>>, None) :
        ctx \in {context_text(page_text, heading)} })

----------------------------------------------------------------------------
(* Documents.  A document is a sequence of pages, each with its text and    *)
(* its tables in page order; a corrupt document fails to open.  Tables are  *)
(* non-empty and rectangular, as pdfplumber finds them.                     *)

HD == <<"H", "d">>
hd == <<"h", "d">>
KEY == <<"K">>
QQ == <<"Q">>

DigitChar(n) ==
  CASE n = 0 -> "0" [] n = 1 -> "1" [] n = 2 -> "2" [] n = 3 -> "3"
    [] n = 4 -> "4" [] n = 5 -> "5" [] n = 6 -> "6" [] n = 7 -> "7"
    [] n = 8 -> "8" [] n = 9 -> "9"

\* an r x c table whose cell (i, j) reads tag i j
Grid(r, c, tag) ==
  [i \in 1..r |-> [j \in 1..c |-> Str(<<tag, DigitChar(i), DigitChar(j)>>)]]

KeyTable ==
  << <<Str(KEY), None>>,
     <<Str(<<"4", "2", ".", "0", "0">>), Str(<<"x", "\n", "y">>)>> >>

DocA ==
  [corrupt |-> FALSE,
   pages |-> <<
     [text |-> <<"a", " ", "b", "\n">>, tables |-> <<>>],
     [text |-> HD \o <<"\n", "b", "1", "1", " ", "b", "1", "2", "\n", "b", "2", "1">>,
      tables |-> <<Grid(2, 2, "a"), Grid(3, 2, "b")>>],
     [text |-> KEY \o <<" ", "4", "2", ".", "0", "0">>, tables |-> <<KeyTable>>] >>]

DocB ==
  [corrupt |-> FALSE,
   pages |-> <<
     [text |-> <<"T", "o", "t", " ">> \o hd \o <<"\n", "c", "2", "3">>,
      tables |-> <<Grid(2, 3, "c"), <<<<None>>>> >>] >>]

DocC == [corrupt |-> TRUE, pages |-> <<>>]

\* the directory the registry was scanned from
Directory ==
  [path \in {"/docs/a.pdf", "/docs/b.pdf", "/docs/c.pdf"} |->
     CASE path = "/docs/a.pdf" -> DocA
       [] path = "/docs/b.pdf" -> DocB
       [] path = "/docs/c.pdf" -> DocC]

\* the file behind a path; a path with no file behind it fails to open
DocAt(path) ==
  IF path \in DOMAIN files THEN files[path] ELSE [corrupt |-> TRUE, pages |-> <<>>]

----------------------------------------------------------------------------
(* Backend calls.  Each returns [r |-> result, log |-> the backend and      *)
(* helper calls it made, in order].                                         *)

Ret(r, log) == [r |-> r, log |-> log]

PyInt(n) == [k |-> "int", n |-> n]
PyDict(d) == [k |-> "dict", d |-> d]

\* find_heading_page: the 0-based index of the first page whose text holds
\* heading, case-insensitively; -1 if none.  heading.lower() raises for a
\* heading that is no str.
find_heading_page(pdf_path, heading) ==
  The({ IF doc.corrupt THEN Ret(Exc("FileDataError"), <<"fitz.open.fail">>)
        ELSE IF doc.pages = <<>> THEN Ret(PyInt(-1), <<"fitz.open">>)
        ELSE IF ~IsStr(heading) THEN Ret(Exc("AttributeError"), <<"fitz.open">>)
        ELSE The({ IF hits = {} THEN Ret(PyInt(-1), <<"fitz.open">>)
                   ELSE Ret(PyInt(Min(hits) - 1), <<"fitz.open">>) :
                   hits \in {{i \in 1..Len(doc.pages) :
                                Contains(Lower(doc.pages[i].text), Lower(heading.s))}} }) :
        doc \in {DocAt(pdf_path)} })

\* mutant: the check "if tables" is missing
extract_all_tables_every_page(pdf_path) ==
  The({ IF doc.corrupt THEN Ret(Exc("PDFSyntaxError"), <<"pdfplumber.open.fail">>)
        ELSE Ret(PyDict([i \in 0..(Len(doc.pages) - 1) |-> doc.pages[i + 1].tables]),
                 <<"pdfplumber.open", "pdfplumber.close">>) :
        doc \in {DocAt(pdf_path)} })

\* extract_all_tables: page index -> that page's tables, for the pages with
\* at least one table
extract_all_tables(pdf_path) ==
  The({ IF doc.corrupt THEN Ret(Exc("PDFSyntaxError"), <<"pdfplumber.open.fail">>)
        ELSE Ret(PyDict([i \in {n \in 0..(Len(doc.pages) - 1) :
                                  doc.pages[n + 1].tables # <<>>} |->
                           doc.pages[i + 1].tables]),
                 <<"pdfplumber.open", "pdfplumber.close">>) :
        doc \in {DocAt(pdf_path)} })

RECURSIVE FlatTables(_)
\* the tables of the pages, page by page
FlatTables(pages) ==
  IF pages = <<>> THEN <<>> ELSE pages[1].tables \o FlatTables(Tail(pages))

\* extract_tables_from_pdf: 1-based table index -> DataFrame, over all pages;
\* a document that fails to open gives {}
\* (pd.DataFrame accepts every list of rows, so no table of a page is left
\* out and table_index counts all of them)
extract_tables_from_pdf(pdf_path) ==
  The({ IF doc.corrupt THEN Ret(PyDict(<<>>), <<"pdfplumber.open.fail">>)
        ELSE The({ Ret(PyDict([i \in 1..Len(flat) |-> DataFrame(flat[i])]),
                       <<"pdfplumber.open", "pdfplumber.close">>) :
                   flat \in {FlatTables(doc.pages)} }) :
        doc \in {DocAt(pdf_path)} })

\* extract_text_from_pdf: the page texts joined by newline, stripped; "" for
\* a document that fails to open
extract_text_from_pdf(pdf_path) ==
  The({ IF doc.corrupt THEN Ret(Str(<<>>), <<"fitz.open.fail">>)
        ELSE Ret(Str(Strip(Join([i \in 1..Len(doc.pages) |-> doc.pages[i].text],
                                <<"\n">>))),
                 <<"fitz.open", "fitz.close">>) :
        doc \in {DocAt(pdf_path)} })

\* the document handles a sequence of calls opened and did not close
Opened(log) ==
  Cardinality({i \in DOMAIN log : log[i] \in {"fitz.open", "pdfplumber.open"}})
Closed(log) ==
  Cardinality({i \in DOMAIN log : log[i] \in {"fitz.close", "pdfplumber.close"}})
Unreleased(log) == Opened(log) - Closed(log)

\* the open handles after the calls of log, from open of them before: a
\* Document that is not closed is released only when the garbage collector
\* finalises it, which may or may not have happened when the calls return
Held(open, log) == {open + kept : kept \in 0..Unreleased(log)}

----------------------------------------------------------------------------
(* Anchor-based table resolution *)

\* [[cell.replace('\n', ' ') if cell else "" for cell in row] for row in best_table]
normalize_cells(table) ==
  [i \in 1..Len(table) |->
     [j \in 1..Len(table[i]) |->
        IF Truthy(table[i][j])
          THEN Str([n \in 1..Len(table[i][j].s) |->
                      IF table[i][j].s[n] = "\n" THEN " " ELSE table[i][j].s[n]])
          ELSE Str(<<>>)]]

\* the branch for several tables on the page: the page text is read again
\* and the best match, its cells normalised, is returned
match_on_page(pdf_path, heading, page_number, tables, log) ==
  The({ IF IsExc(best_table) THEN Ret(best_table, log)
        ELSE IF Truthy(best_table)
          THEN Ret(DataFrame(normalize_cells(best_table.l)), log)
        ELSE Ret(None, log) :
        best_table \in {get_best_matching_table(
                          tables, DocAt(pdf_path).pages[page_number + 1].text,
                          heading.s)} })

\* mutant: a page with one table goes through the matcher like any other
tables_on_page_always_match(pdf_path, heading, page_number, log) ==
  The({ IF IsExc(by_page.r) THEN Ret(by_page.r, log \o by_page.log)
        ELSE IF page_number \notin DOMAIN by_page.r.d THEN Ret(None, log \o by_page.log)
        ELSE match_on_page(pdf_path, heading, page_number, by_page.r.d[page_number],
                           log \o by_page.log \o <<"fitz.open", "get_best_matching_table">>) :
        by_page \in {extract_all_tables(pdf_path)} })

\* the part of extract_table_by_heading after the heading's page is found
tables_on_page(pdf_path, heading, page_number, log) ==
  The({ IF IsExc(by_page.r) THEN Ret(by_page.r, log \o by_page.log)
        ELSE IF page_number \notin DOMAIN by_page.r.d THEN Ret(None, log \o by_page.log)
        ELSE IF Len(by_page.r.d[page_number]) = 1
          THEN Ret(DataFrame(by_page.r.d[page_number][1]), log \o by_page.log)
        ELSE match_on_page(pdf_path, heading, page_number, by_page.r.d[page_number],
                           log \o by_page.log \o <<"fitz.open", "get_best_matching_table">>) :
        by_page \in {extract_all_tables(pdf_path)} })

extract_table_by_heading(pdf_path, heading) ==
  The({ IF IsExc(found.r) THEN found
        ELSE IF found.r.n = -1 THEN Ret(None, found.log)
        ELSE tables_on_page(pdf_path, heading, found.r.n, found.log) :
        found \in {find_heading_page(pdf_path, heading)} })

----------------------------------------------------------------------------
(* Table lookup *)

RowHolds(row, x) == \E j \in 1..Len(row) : row[j] = x

\* the first-row scan: the lowest-index table whose first row holds identifier
first_row_scan(tables, identifier) ==
  The({ IF hits = {} THEN None ELSE tables[Min(hits)] :
        hits \in {{i \in DOMAIN tables : RowHolds(tables[i].rows[1], identifier)}} })

\* tables.get(int(table_no))
tables_get(tables, table_no) ==
  The({ IF IsExc(number) THEN number
        ELSE IF number.l[1] \in DOMAIN tables THEN tables[number.l[1]]
        ELSE None :
        number \in {int_of(table_no)} })

\* extract_table_by_heading when an identifier is given and no table is found
heading_fallback(first, file_path, identifier) ==
  IF Truthy(identifier) /\ first.r = None
    THEN The({ Ret(anchored.r, first.log \o <<"extract_table_by_heading">> \o anchored.log) :
               anchored \in {extract_table_by_heading(file_path, identifier)} })
    ELSE first

\* mutant: the table-number lookup as the else of the scan loop, tried
\* before the heading
resolve_table_number_first(file_path, table_no, identifier) ==
  The({ IF Truthy(identifier) /\ first_row_scan(cat.r.d, identifier) # None
          THEN Ret(first_row_scan(cat.r.d, identifier), cat.log \o <<"first_row_scan">>)
          ELSE heading_fallback(
                 Ret(tables_get(cat.r.d, table_no),
                     cat.log \o (IF Truthy(identifier) THEN <<"first_row_scan">> ELSE <<>>)
                             \o <<"tables.get">>),
                 file_path, identifier) :
        cat \in {extract_tables_from_pdf(file_path)} })

\* the source table of table_extraction_regex: the first-row scan or
\* tables.get(int(table_no)), then extract_table_by_heading
resolve_table(file_path, table_no, identifier) ==
  The({ heading_fallback(
          IF Truthy(identifier)
            THEN Ret(first_row_scan(cat.r.d, identifier), cat.log \o <<"first_row_scan">>)
            ELSE Ret(tables_get(cat.r.d, table_no), cat.log \o <<"tables.get">>),
          file_path, identifier) :
        cat \in {extract_tables_from_pdf(file_path)} })

\* what table_extraction_regex returned (r) and what it computed on the way
Looked(r, src, row_indices, col_indices, cells) ==
  [r |-> r, log |-> src.log, table |-> src.r, row_indices |-> row_indices,
   col_indices |-> col_indices, cells |-> cells]

\* the cells of the cross product, joined by newline
join_cells(src, row_indices, col_indices) ==
  The({ IF \E i \in 1..Len(cells) : IsExc(cells[i])
          THEN Looked(Exc("AttributeError"), src, row_indices, col_indices, <<>>)
          ELSE Looked(Str(Join([i \in 1..Len(cells) |-> cells[i].s], <<"\n">>)), src,
                      row_indices, col_indices, [i \in 1..Len(cells) |-> cells[i].s]) :
        cells \in {cell_values(src.r, row_indices, col_indices)} })

table_extraction_regex(file_path, table_no, row_nums, col_nums, identifier) ==
  The({ IF IsExc(src.r) THEN Looked(src.r, src, <<>>, <<>>, <<>>)
        ELSE IF src.r = None /\ identifier = None THEN Looked(None, src, <<>>, <<>>, <<>>)
        ELSE IF IsExc(row_indices) THEN Looked(row_indices, src, <<>>, <<>>, <<>>)
        ELSE IF IsExc(col_indices) THEN Looked(col_indices, src, row_indices.l, <<>>, <<>>)
        ELSE join_cells(src, row_indices.l, col_indices.l) :
        src \in {resolve_table(file_path, table_no, identifier)},
        row_indices \in {parse_indices(row_nums)},
        col_indices \in {parse_indices(col_nums)} })

----------------------------------------------------------------------------
(* Text-pattern search.  Patterns are literals in which "." matches any     *)
(* character but a newline; BadPattern does not compile.                    *)

BadPattern == <<"(">>

MatchesAt(pattern, text, i) ==
  /\ i + Len(pattern) - 1 <= Len(text)
  /\ \A j \in 1..Len(pattern) :
       \/ pattern[j] = text[i + j - 1]
       \/ pattern[j] = "." /\ text[i + j - 1] # "\n"

\* mutant: the rightmost match
re_search_last(pattern, text) ==
  LET hits == {i \in 1..(Len(text.s) + 1) : MatchesAt(pattern.s, text.s, i)}
  IN IF ~IsStr(pattern) THEN Exc("TypeError")
     ELSE IF pattern.s = BadPattern THEN Exc("re.error")
     ELSE IF hits = {} THEN None
     ELSE Str(Slice(text.s, Max(hits), Max(hits) + Len(pattern.s) - 1))

\* re.search(pattern, text): match.group() of the leftmost match, None if none
re_search(pattern, text) ==
  LET hits == {i \in 1..(Len(text.s) + 1) : MatchesAt(pattern.s, text.s, i)}
  IN IF ~IsStr(pattern) THEN Exc("TypeError")
     ELSE IF pattern.s = BadPattern THEN Exc("re.error")
     ELSE IF hits = {} THEN None
     ELSE Str(Slice(text.s, Min(hits), Min(hits) + Len(pattern.s) - 1))

----------------------------------------------------------------------------
(* Batch driver *)

required_columns ==
  {"File Path", "Field Name", "Text Extraction", "Table No", "Row No", "Column No"}

\* mutant: only the two columns read by subscript are checked
missing_column_subscripted(cols) ==
  \E col \in {"File Path", "Field Name"} : col \notin cols

\* the check of required_columns: some required column is not in config_df
missing_column(cols) == \E col \in required_columns : col \notin cols

\* pdf_map.get(filename)
MapGet(map, filename) == IF filename \in DOMAIN map THEN map[filename] ELSE ""

NoLookup == [table |-> None, row_indices |-> <<>>, col_indices |-> <<>>, cells |-> <<>>]

\* the body of the try statement: the value or the exception (r), the calls
\* made (log), the branch taken (strategy), what the table lookup computed
extract_rule(rule, file_path) ==
  IF /\ (notna(rule.table_no) \/ Truthy(rule.identifier))
     /\ notna(rule.row)
     /\ notna(rule.col)
     /\ ~notna(rule.pattern)
    THEN The({ [r |-> lookup.r, log |-> <<"table_extraction_regex">> \o lookup.log,
                strategy |-> "table",
                lookup |-> [table |-> lookup.table, row_indices |-> lookup.row_indices,
                            col_indices |-> lookup.col_indices, cells |-> lookup.cells]] :
               lookup \in {table_extraction_regex(file_path, rule.table_no, rule.row,
                                                  rule.col, rule.identifier)} })
    ELSE IF notna(rule.pattern)
      THEN The({ [r |-> re_search(rule.pattern, text.r),
                  log |-> <<"extract_text_from_pdf">> \o text.log \o <<"re.search">>,
                  strategy |-> "text", lookup |-> NoLookup] :
                 text \in {extract_text_from_pdf(file_path)} })
      ELSE [r |-> None, log |-> <<>>, strategy |-> "none", lookup |-> NoLookup]

\* mutant: except ValueError
caught_by_except_value_error(e) == e = "ValueError"

\* except Exception: every exception but the interpreter-exit ones
caught_by_except(e) == e \notin {"SystemExit", "KeyboardInterrupt", "GeneratorExit"}

\* mutant: the continue is missing
skip_row_never(file_path) == FALSE

\* if not file_path: continue
skip_row(file_path) == file_path = ""

\* mutant: result.insert(0, ...)
append_result_front(rows, row) == <<row>> \o rows

\* result.append(...)
append_result(rows, row) == Append(rows, row)

\* mutant: extracted_value is not reset at the top of the iteration
reset_value_kept(carried) == carried

\* extracted_value = None, before the try statement; carried is what the
\* local held when the previous iteration ended
reset_value(carried) == None

\* the try statement assigned extracted_value: the table branch returned, or
\* the pattern matched
assigned(got) ==
  /\ ~IsExc(got.r)
  /\ \/ got.strategy = "table"
     \/ got.strategy = "text" /\ got.r # None

\* the row appended for a rule with a registered file, after the try
\* statement
emit_row(rule, file_path, got, save_text, carried) ==
  [emit |-> TRUE, rule |-> rule, log |-> got.log, strategy |-> got.strategy,
   raised |-> IsExc(got.r),
   escaped |-> IsExc(got.r) /\ ~caught_by_except(got.r.e),
   saved |-> got.strategy = "text" /\ got.r.k = "str" /\ save_text,
   lookup |-> got.lookup,
   row |-> [field |-> rule.field, path |-> file_path,
            value |-> IF assigned(got) THEN got.r ELSE reset_value(carried)]]

\* one iteration of the loop over config_df: the row appended, if any (emit,
\* row), and what was done for the rule
process_row(rule, map, save_text, carried) ==
  The({ IF skip_row(file_path)
          THEN [emit |-> FALSE, rule |-> rule, log |-> <<>>, strategy |-> "skip",
                raised |-> FALSE, escaped |-> FALSE, saved |-> FALSE,
                lookup |-> NoLookup,
                row |-> [field |-> rule.field, path |-> "", value |-> None]]
          ELSE The({ emit_row(rule, file_path, got, save_text, carried) :
                     got \in {extract_rule(rule, file_path)} }) :
        file_path \in {MapGet(map, rule.file)} })

----------------------------------------------------------------------------
(* Inputs *)

MaxRules == 2

Registry ==
  [f \in {"a.pdf", "b.pdf", "c.pdf"} |->
     CASE f = "a.pdf" -> "/docs/a.pdf"
       [] f = "b.pdf" -> "/docs/b.pdf"
       [] f = "c.pdf" -> "/docs/c.pdf"]

ColumnSets ==
  {required_columns, required_columns \cup {"Identifier"}}
    \cup {required_columns \ {c} : c \in required_columns}
    \cup {(required_columns \ {c}) \cup {"Identifier"} : c \in required_columns}

Patterns == {NaN, Str(<<"4", "2">>), Str(<<"b", ".", "1">>), Str(<<"z", "z">>), Str(BadPattern)}
TableNos == {NaN, Num(10), Num(20), Num(37), Num(90)}
RowSpecs ==
  {NaN, Num(20), Num(27), Str(<<"2">>), Str(<<"0">>), Str(<<"-", "1">>),
   Str(<<"-", "5">>), Str(<<"4">>), Str(<<"1", ",", "3">>),
   Str(<<"3", ",", " ", "1">>), Str(<<"1", ",", "x">>), Str(<<"2", ".", "7">>)}
ColSpecs ==
  {NaN, Num(10), Str(<<"3">>), Str(<<"0">>), Str(<<"1", ",", "2">>),
   Str(<<"2", ",", "1", ".", "0">>), Str(<<" ", "2", " ">>)}

\* row.get('Identifier', None): None without the column, NaN for a blank cell
Identifiers(cols) ==
  IF "Identifier" \in cols
    THEN {NaN, Str(HD), Str(hd), Str(KEY), Str(QQ)}
    ELSE {None}

Rule(file, field, pattern, table_no, row, col, identifier) ==
  [file |-> file, field |-> field, pattern |-> pattern, table_no |-> table_no,
   row |-> row, col |-> col, identifier |-> identifier]

\* every shape of one rule, for the single-rule runs
AllRules(cols) ==
  {Rule(f, "Total", p, t, r, c, i) :
     f \in {"a.pdf", "b.pdf", "c.pdf", "z.pdf"}, p \in Patterns, t \in TableNos,
     r \in RowSpecs, c \in ColSpecs, i \in Identifiers(cols)}

\* a few shapes of each kind, for the runs over several rules
BatchRules(cols) ==
  {Rule(f, n, s[1], s[2], s[3], s[4], i) :
     f \in {"a.pdf", "z.pdf"}, n \in {"Total", "Date"},
     s \in {<<NaN, Num(10), Str(<<"2">>), Num(10)>>,
            <<NaN, Num(10), Str(<<"1", ",", "x">>), Num(10)>>,
            <<Str(<<"4", "2">>), NaN, NaN, NaN>>,
            <<Str(BadPattern), NaN, NaN, NaN>>,
            <<NaN, NaN, NaN, NaN>>},
     i \in Identifiers(cols) \cap {None, NaN, Str(KEY)}}

RulePool == IF scope = "batch" THEN BatchRules(columns) ELSE AllRules(columns)
RuleLimit == IF scope = "batch" THEN MaxRules ELSE 1

----------------------------------------------------------------------------
(* The run of main: the column check, the loop over the rule set, the write *)
(* of the result sink.  config is the part of the rule set read so far,     *)
(* outcomes what the loop did for each of its rows.                         *)

InitRun(sc) ==
  /\ pc = "start"
  /\ scope = sc
  /\ columns \in ColumnSets
  /\ pdf_map = Registry
  /\ text_extract \in BOOLEAN
  /\ config = <<>>
  /\ result = <<>>
  /\ outcomes = <<>>
  /\ written = None
  /\ artifacts = {}
  /\ m_in = None
  /\ m_out = None
  /\ files = Directory
  /\ handles = 0
  /\ extracted_value = Unbound

Init == InitRun("batch")

\* process_config_rows, the check of required_columns: sys.exit(1) on the
\* first missing one
CheckColumns ==
  /\ pc = "start"
  /\ pc' = IF missing_column(columns) THEN "exit" ELSE "loop"
  /\ UNCHANGED <<scope, columns, pdf_map, text_extract, config, result, outcomes,
                 written, artifacts, m_in, m_out, files, handles, extracted_value>>

\* process_config_rows, one row of config_df
ProcessRow ==
  /\ pc = "loop"
  /\ Len(config) < RuleLimit
  /\ \E rule \in RulePool :
       \E out \in {process_row(rule, pdf_map, text_extract, extracted_value)} :
          /\ config' = Append(config, rule)
          /\ outcomes' = Append(outcomes, out)
          /\ pc' = IF out.escaped THEN "crashed" ELSE "loop"
          /\ result' = IF out.emit /\ ~out.escaped
                         THEN append_result(result, out.row) ELSE result
          /\ artifacts' = IF out.saved THEN artifacts \cup {rule.file} ELSE artifacts
          /\ extracted_value' = IF out.emit THEN out.row.value ELSE extracted_value
          /\ handles' \in Held(handles, out.log)
  /\ UNCHANGED <<scope, columns, pdf_map, text_extract, written, m_in, m_out, files>>

\* main: output_df.to_excel once process_config_rows has returned
WriteOutput ==
  /\ pc = "loop"
  /\ pc' = "written"
  /\ written' = PyList(result)
  /\ UNCHANGED <<scope, columns, pdf_map, text_extract, config, result, outcomes,
                 artifacts, m_in, m_out, files, handles, extracted_value>>

Next == CheckColumns \/ ProcessRow \/ WriteOutput

Spec == Init /\ [][Next]_vars

InitRule == InitRun("rule")

SpecRule == InitRule /\ [][Next]_vars

----------------------------------------------------------------------------
(* The Table Matcher on its own: get_best_matching_table applied to every   *)
(* list of up to MaxCands candidates and every page text of the pools.      *)

MaxCands == 3

A1 == Str(<<"a">>)
B1 == Str(<<"b">>)

CandPool ==
  { <<<<A1>>>>, <<<<B1>>>>, <<<<A1, B1>>>>, <<<<A1>>, <<B1>>>>, <<<<None>>>>,
    <<<<B1, None>>, <<>>>> }

TextPool ==
  { <<"H", "a", "b">>, <<"H", "\n", "a", " ", "b", "\n">>, <<"x", "H">>,
    <<"H", " ", "b", "H", "a">>, <<"x", "a">>, <<"H", "z">>,
    <<"H", "a", "\n", "b">>,
    <<"H", "a", "\n", "a", "\n", "a", "\n", "a", "\n", "a", "\n", "a", "\n", "a",
      "\n", "a", "\n", "a", "\n", "a", "\n", "b">> }

CandLists == UNION {[1..n -> CandPool] : n \in 0..MaxCands}

InitMatch ==
  /\ pc = "call"
  /\ scope = "match"
  /\ columns = {}
  /\ pdf_map = Registry
  /\ text_extract = FALSE
  /\ config = <<>>
  /\ result = <<>>
  /\ outcomes = <<>>
  /\ written = None
  /\ artifacts = {}
  /\ m_in \in [tables : CandLists, page_text : TextPool, heading : {<<"H">>}]
  /\ m_out = None
  /\ files = Directory
  /\ handles = 0
  /\ extracted_value = Unbound

Match ==
  /\ pc = "call"
  /\ pc' = "returned"
  /\ m_out' = get_best_matching_table(m_in.tables, m_in.page_text, m_in.heading)
  /\ UNCHANGED <<scope, columns, pdf_map, text_extract, config, result, outcomes,
                 written, artifacts, m_in, files, handles,
                 extracted_value>>

NextMatch == Match

SpecMatch == InitMatch /\ [][NextMatch]_vars

----------------------------------------------------------------------------
(* The document functions on their own: the Anchor Locator, the two views   *)
(* of the Table Catalog, anchor-based resolution and text extraction, each  *)
(* applied to every document of up to MaxPages pages of the pool and every  *)
(* heading.                                                                 *)

MaxPages == 2

PageLow == [text |-> hd \o <<"\n", "d", "1", "1">>, tables |-> <<Grid(1, 1, "d")>>]

PagePool == {DocA.pages[1], DocA.pages[2], DocA.pages[3], DocB.pages[1], PageLow}

DocPool ==
  {DocC} \cup {[corrupt |-> FALSE, pages |-> ps] :
                 ps \in UNION {[1..n -> PagePool] : n \in 1..MaxPages}}

Headings == {NaN, Str(HD), Str(hd), Str(KEY), Str(QQ)}

DocPath == "/docs/d.pdf"

InitDoc ==
  /\ pc = "ready"
  /\ scope = "doc"
  /\ columns = {}
  /\ pdf_map = [f \in {"d.pdf"} |-> DocPath]
  /\ text_extract = FALSE
  /\ config = <<>>
  /\ result = <<>>
  /\ outcomes = <<>>
  /\ written = None
  /\ artifacts = {}
  /\ files \in {[path \in {DocPath} |-> d] : d \in DocPool}
  /\ m_in \in [pdf_path : {DocPath}, heading : Headings]
  /\ m_out = None
  /\ handles = 0
  /\ extracted_value = Unbound

\* a call of one of the document functions and its return
Returned(op, out) ==
  /\ pc = "ready"
  /\ pc' = "returned"
  /\ m_out' = [op |-> op, out |-> out]
  /\ UNCHANGED <<scope, columns, pdf_map, text_extract, config, result, outcomes,
                 written, artifacts, m_in, files, extracted_value>>

Locate ==
  \E found \in {find_heading_page(m_in.pdf_path, m_in.heading)} :
    /\ Returned("find_heading_page", <<found>>)
    /\ handles' \in Held(handles, found.log)

\* both views of the catalog of one document
Catalogs ==
  \E flat \in {extract_tables_from_pdf(m_in.pdf_path)},
     by_page \in {extract_all_tables(m_in.pdf_path)} :
    /\ Returned("catalogs", <<flat, by_page>>)
    /\ handles' \in Held(handles, flat.log \o by_page.log)

Resolve ==
  \E anchored \in {extract_table_by_heading(m_in.pdf_path, m_in.heading)} :
    /\ Returned("extract_table_by_heading", <<anchored>>)
    /\ handles' \in Held(handles, anchored.log)

ReadText ==
  \E text \in {extract_text_from_pdf(m_in.pdf_path)} :
    /\ Returned("extract_text_from_pdf", <<text>>)
    /\ handles' \in Held(handles, text.log)

NextDoc == Locate \/ Catalogs \/ Resolve \/ ReadText

SpecDoc == InitDoc /\ [][NextDoc]_vars

----------------------------------------------------------------------------
(* Properties of the batch driver *)

Registered(rule) == rule.file \in DOMAIN pdf_map

\* the number of rules with a registered filename among the first i read
RowIndex(i) == Cardinality({j \in 1..i : Registered(config[j])})

RegisteredRules == SelectSeq(config, Registered)

\* C1: no failure inside the resolution of a rule leaves the rule: the batch
\* never crashes, a rule with a registered filename whose resolution raised
\* has its row, with value None, and every rule read after it has been
\* processed and has its own row.
C1_FailureIsolated ==
  /\ pc # "crashed"
  /\ Len(outcomes) = Len(config)
  /\ \A i \in 1..Len(config) :
       Registered(config[i]) =>
         /\ RowIndex(i) <= Len(result)
         /\ result[RowIndex(i)].field = config[i].field
         /\ outcomes[i].raised => result[RowIndex(i)].value = None

C1_Witness ==
  /\ Len(config) = 2
  /\ outcomes[1].raised
  /\ outcomes[1].strategy = "table"
  /\ ~outcomes[2].raised
  /\ Len(result) = 2
  /\ result[1].value = None
  /\ result[2].value # None

\* C2: a rule whose filename is not registered gets no row and nothing is
\* extracted for it, and the rules with a registered filename still get their
\* rows, in input order.
C2_UnregisteredSkipped ==
  /\ \A i \in 1..Len(outcomes) :
       ~Registered(config[i]) => ~outcomes[i].emit /\ outcomes[i].log = <<>>
  /\ Len(result) = Len(RegisteredRules)
  /\ \A j \in 1..Len(result) :
       /\ result[j].field = RegisteredRules[j].field
       /\ result[j].path = pdf_map[RegisteredRules[j].file]

C2_Witness ==
  /\ Len(config) = 2
  /\ ~Registered(config[1])
  /\ Registered(config[2])
  /\ Len(result) = 1
  /\ result[1].field = config[2].field

\* C3 as stated: the written result has exactly one row per input rule, the
\* i-th row carrying the field name of the i-th rule.
C3_OneRowPerRule ==
  pc = "written" =>
    /\ Len(written.l) = Len(config)
    /\ \A i \in 1..Len(config) :
         i <= Len(written.l) /\ written.l[i].field = config[i].field

\* C3 as amended: the written result has exactly one row per input rule whose
\* filename is registered, in input order, whether or not the rule failed;
\* a rule with an unregistered filename has no row.
C3_OneRowPerRegisteredRule ==
  pc = "written" =>
    /\ Len(written.l) = Len(RegisteredRules)
    /\ \A j \in 1..Len(RegisteredRules) :
         j <= Len(written.l) /\ written.l[j].field = RegisteredRules[j].field

C3_Witness ==
  /\ pc = "written"
  /\ Len(config) = 2
  /\ Len(written.l) = 2
  /\ config[1].field # config[2].field
  /\ outcomes[1].raised

\* C4: with a required column missing the batch stops at the check: no rule
\* is read, no row is produced and nothing is written.
C4_MissingColumnAborts ==
  (\E col \in required_columns : col \notin columns) =>
    /\ pc \in {"start", "exit"}
    /\ config = <<>>
    /\ result = <<>>
    /\ written = None

C4_Witness ==
  /\ pc = "exit"
  /\ "Row No" \notin columns
  /\ "Identifier" \in columns

----------------------------------------------------------------------------
(* Properties of the resolution of one rule *)

InLog(event, log) == \E n \in 1..Len(log) : log[n] = event

\* the rules read so far for which the table lookup ran
TableRows == {i \in 1..Len(outcomes) : outcomes[i].strategy = "table"}

\* the flattened catalog of the document of a rule
FlatOf(rule) ==
  IF ~Registered(rule) \/ DocAt(pdf_map[rule.file]).corrupt THEN <<>>
  ELSE FlatTables(DocAt(pdf_map[rule.file]).pages)

\* an identifier is given: the cell holds a label (it is neither missing nor
\* blank)
IdentifierGiven(rule) == rule.identifier.k = "str"

\* the strategy the priority order gives a rule
ClaimedStrategy(rule) ==
  IF /\ (notna(rule.table_no) \/ IdentifierGiven(rule))
     /\ notna(rule.row) /\ notna(rule.col) /\ ~notna(rule.pattern)
    THEN "table"
    ELSE IF notna(rule.pattern) THEN "text" ELSE "none"

\* C5: each rule with a registered file is resolved by the one strategy the
\* priority order gives it (table lookup, else text search, else none), never
\* by both, and a rule with no strategy makes no call on the document.
C5_StrategyByPriority ==
  \A i \in 1..Len(outcomes) :
    outcomes[i].emit =>
      /\ outcomes[i].strategy = ClaimedStrategy(config[i])
      /\ ~(InLog("table_extraction_regex", outcomes[i].log)
           /\ InLog("extract_text_from_pdf", outcomes[i].log))
      /\ ClaimedStrategy(config[i]) = "none" => outcomes[i].log = <<>>

\* the tables of the flattened catalog whose first row holds the identifier
FirstRowHits(rule) ==
  {n \in 1..Len(FlatOf(rule)) :
     \E j \in 1..Len(FlatOf(rule)[n][1]) : FlatOf(rule)[n][1][j] = rule.identifier}

NumberedTable(rule) ==
  IF rule.table_no.k = "num" /\ Trunc(rule.table_no.t) \in 1..Len(FlatOf(rule))
    THEN DataFrame(FlatOf(rule)[Trunc(rule.table_no.t)])
    ELSE None

CellAt(a, b, ncols) == (a - 1) * ncols + b

\* C7: in a resolved table a 1-based row or column index outside
\* 1..number of rows (columns), 0 and negative ones included, gives "" for
\* that cell, and the cells number len(rows) x len(cols).
C7_OutOfRangeEmpty ==
  \A i \in TableRows :
    (outcomes[i].lookup.table.k = "df" /\ ~outcomes[i].raised) =>
      LET rows == outcomes[i].lookup.row_indices
          cols == outcomes[i].lookup.col_indices
          cells == outcomes[i].lookup.cells
          nr == Len(outcomes[i].lookup.table.rows)
          nc == Len(outcomes[i].lookup.table.rows[1])
      IN /\ Len(cells) = Len(rows) * Len(cols)
         /\ \A a \in 1..Len(rows), b \in 1..Len(cols) :
              (rows[a] + 1 \notin 1..nr \/ cols[b] + 1 \notin 1..nc) =>
                cells[CellAt(a, b, Len(cols))] = <<>>

\* the 0-based indices each well-formed specification of the pools stands for
Indices(spec) ==
  CASE spec = Num(10) -> <<0>>
    [] spec = Num(20) -> <<1>>
    [] spec = Num(27) -> <<1>>
    [] spec = Str(<<"2">>) -> <<1>>
    [] spec = Str(<<"3">>) -> <<2>>
    [] spec = Str(<<"4">>) -> <<3>>
    [] spec = Str(<<"0">>) -> <<-1>>
    [] spec = Str(<<"-", "1">>) -> <<-2>>
    [] spec = Str(<<"-", "5">>) -> <<-6>>
    [] spec = Str(<<"2", ".", "7">>) -> <<1>>
    [] spec = Str(<<" ", "2", " ">>) -> <<1>>
    [] spec = Str(<<"1", ",", "3">>) -> <<0, 2>>
    [] spec = Str(<<"3", ",", " ", "1">>) -> <<2, 0>>
    [] spec = Str(<<"1", ",", "2">>) -> <<0, 1>>

IllFormed == {Str(<<"1", ",", "x">>), Str(<<"2", ",", "1", ".", "0">>)}

\* C8: a specification without a comma parses to the one index int(float(x)) - 1,
\* a comma-separated one to the list of its trimmed integers minus one, in
\* the order written; the cells are those of the cross product, rows outer
\* and columns inner, and the value is the cells joined by newline.
C8_CoordinateResolution ==
  \A i \in TableRows :
    (/\ outcomes[i].lookup.table.k = "df"
     /\ config[i].row \notin IllFormed
     /\ config[i].col \notin IllFormed) =>
      LET rows == Indices(config[i].row)
          cols == Indices(config[i].col)
          table == outcomes[i].lookup.table.rows
          cells == outcomes[i].lookup.cells
      IN /\ ~outcomes[i].raised
         /\ outcomes[i].lookup.row_indices = rows
         /\ outcomes[i].lookup.col_indices = cols
         /\ Len(cells) = Len(rows) * Len(cols)
         /\ \A a \in 1..Len(rows), b \in 1..Len(cols) :
              (rows[a] \in 0..(Len(table) - 1) /\ cols[b] \in 0..(Len(table[1]) - 1)) =>
                cells[CellAt(a, b, Len(cols))] = str_of(table[rows[a] + 1][cols[b] + 1])
         /\ outcomes[i].row.value = Str(Join(cells, <<"\n">>))

C8_Witness ==
  \E i \in TableRows :
    /\ config[i].row = Str(<<"1", ",", "3">>)
    /\ config[i].col = Str(<<"1", ",", "2">>)
    /\ outcomes[i].lookup.table = DataFrame(Grid(3, 2, "b"))
    /\ outcomes[i].lookup.cells =
         << <<"b", "1", "1">>, <<"b", "1", "2">>, <<"b", "3", "1">>, <<"b", "3", "2">> >>
    /\ outcomes[i].row.value =
         Str(<<"b", "1", "1", "\n", "b", "1", "2", "\n", "b", "3", "1", "\n",
               "b", "3", "2">>)

\* a rule that names a table by number and one cell of it, with no pattern
\* and no identifier (no Identifier column, or a blank cell), in a document
\* that has the table and the cell
TableNumberRule(rule) ==
  /\ Registered(rule)
  /\ rule.pattern = NaN
  /\ rule.identifier \in {None, NaN}
  /\ NumberedTable(rule) # None
  /\ rule.row \in {Num(20), Num(27), Str(<<"2">>), Str(<<"2", ".", "7">>)}
  /\ rule.col \in {Num(10), Str(<<" ", "2", " ">>)}
  /\ Indices(rule.row)[1] + 1 <= NRows(NumberedTable(rule))
  /\ Indices(rule.col)[1] + 1 <= NCols(NumberedTable(rule))

\* C9: a table-number rule gives the row (field name, registered path, the
\* string of cell (r, c) of the k-th table of the flattened catalog).
C9_TableNumberRuleRow ==
  \A i \in 1..Len(outcomes) :
    TableNumberRule(config[i]) =>
      /\ outcomes[i].emit
      /\ outcomes[i].row =
           [field |-> config[i].field, path |-> pdf_map[config[i].file],
            value |-> Str(str_of(NumberedTable(config[i]).rows
                                   [Indices(config[i].row)[1] + 1]
                                   [Indices(config[i].col)[1] + 1]))]

----------------------------------------------------------------------------
(* Properties of the Table Matcher *)

Score(i) ==
  ratio(context_text(m_in.page_text, m_in.heading).s, table_to_string(m_in.tables[i]))

\* the candidates no other candidate outscores
TopScored ==
  {i \in 1..Len(m_in.tables) :
     \A j \in 1..Len(m_in.tables) : ~Greater(Score(j), Score(i))}

\* C10: given a context text, the matcher returns the candidate with the
\* highest similarity to it, the first-seen one among equals, and None when
\* there is no candidate or none scores above 0.
C10_BestMatch ==
  (pc = "returned" /\ ~IsExc(context_text(m_in.page_text, m_in.heading))) =>
    IF m_in.tables = <<>> \/ \A i \in 1..Len(m_in.tables) : Score(i)[1] = 0
      THEN m_out = None
      ELSE m_out = PyList(m_in.tables[Min(TopScored)])

C10_Witness ==
  /\ pc = "returned"
  /\ ~IsExc(context_text(m_in.page_text, m_in.heading))
  /\ \E i \in TopScored, j \in TopScored :
       /\ i < j
       /\ Score(i)[1] > 0
       /\ m_in.tables[i] # m_in.tables[j]
       /\ \E n \in 1..Len(m_in.tables) : n \notin TopScored
       /\ m_out = PyList(m_in.tables[i])

----------------------------------------------------------------------------
(* Properties of the document functions *)

Doc == files[DocPath]

Called(op) == pc = "returned" /\ m_out.op = op

\* the pages whose text holds the heading, whatever the case of the letters
AnchorPages ==
  {i \in 1..Len(Doc.pages) : Contains(Lower(Doc.pages[i].text), Lower(m_in.heading.s))}

\* the tables of the first page that holds the heading
AnchorTables == Doc.pages[Min(AnchorPages)].tables

\* a call of extract_table_by_heading with a label, on a document that opens
Resolved == Called("extract_table_by_heading") /\ ~Doc.corrupt /\ IsStr(m_in.heading)

C14_ContextDefined ==
  (Resolved /\ AnchorPages # {} /\ Len(AnchorTables) > 1) =>
    /\ InLog("get_best_matching_table", m_out.out[1].log)
    /\ ~IsExc(m_out.out[1].r)

RECURSIVE PageLists(_, _)
\* the lists of the per-page view, by ascending page index from page i
PageLists(by_page, i) ==
  IF i >= Len(Doc.pages) THEN <<>>
  ELSE (IF i \in DOMAIN by_page THEN by_page[i] ELSE <<>>) \o PageLists(by_page, i + 1)

----------------------------------------------------------------------------
(* Properties of text-pattern rules, of document handles and of the rules   *)
(* of one batch                                                             *)

\* the rules read so far that have a registered filename and a pattern
TextRows == {i \in 1..Len(outcomes) : Registered(config[i]) /\ notna(config[i].pattern)}

\* the text of the rule's document: its page texts joined by newlines and
\* stripped, empty for a document that does not open
DocText(rule) ==
  IF DocAt(pdf_map[rule.file]).corrupt THEN <<>>
  ELSE Strip(Join([n \in 1..Len(DocAt(pdf_map[rule.file]).pages) |->
                     DocAt(pdf_map[rule.file]).pages[n].text], <<"\n">>))

\* where the rule's pattern matches in the text of its document
Starts(rule) ==
  The({ IF rule.pattern.s = BadPattern THEN {}
        ELSE {n \in 1..(Len(text) + 1) : MatchesAt(rule.pattern.s, text, n)} :
        text \in {DocText(rule)} })

\* value is what a search for pattern in text gives: the match that starts
\* before every other, None when there is none
FirstMatch(value, pattern, text) ==
  IF pattern = BadPattern \/ \A n \in 1..(Len(text) + 1) : ~MatchesAt(pattern, text, n)
    THEN value = None
    ELSE \E n \in 1..(Len(text) + 1) :
           /\ MatchesAt(pattern, text, n)
           /\ \A m \in 1..(n - 1) : ~MatchesAt(pattern, text, m)
           /\ value = Str(Slice(text, n, n + Len(pattern) - 1))

\* C12: a rule with a pattern and a registered filename always gets its row
\* and the batch goes on; the value is the leftmost match of the pattern in
\* the text of the document, and None when the pattern matches nowhere, as
\* for a document whose text cannot be extracted.
C12_TextPatternRule ==
  \A i \in TextRows :
    /\ pc # "crashed"
    /\ outcomes[i].emit
    /\ outcomes[i].strategy = "text"
    /\ RowIndex(i) <= Len(result)
    /\ result[RowIndex(i)].field = config[i].field
    /\ \E text \in {DocText(config[i])} :
         FirstMatch(result[RowIndex(i)].value, config[i].pattern.s, text)

C12_Witness ==
  /\ TextRows = {1}
  /\ config[1].file = "a.pdf"
  /\ Cardinality(Starts(config[1])) = 2
  /\ result[1].value = Str(<<"b", "1", "1">>)

\* C13: no document handle is open once a resolution step has ended, whether
\* the step returned or raised.
C13_HandlesReleased == handles = 0

\* the rule as the only rule of a batch: the first iteration of the loop
Solo(rule) == process_row(rule, pdf_map, text_extract, Unbound)

\* C16: the row of a rule is the row the rule gets as the only rule of a
\* batch, whatever rules were read before it and whether they failed, were
\* skipped or succeeded; the result holds these rows, in input order.
C16_RuleIndependence ==
  /\ \A i \in 1..Len(outcomes) :
       /\ outcomes[i].emit = Solo(config[i]).emit
       /\ outcomes[i].emit => outcomes[i].row = Solo(config[i]).row
  /\ pc # "crashed" =>
       result = [j \in 1..Len(RegisteredRules) |-> Solo(RegisteredRules[j]).row]

C16_Witness ==
  /\ Len(config) = 2
  /\ outcomes[1].emit
  /\ outcomes[1].row.value # None
  /\ outcomes[2].emit
  /\ outcomes[2].raised
  /\ result[2].value = None
  /\ config[1].field = config[2].field

============================================================================
